---- MODULE Spec2Model ----
(***************************************************************************)
(* Nested-interval trees (django-nested-intervals): the interval           *)
(* allocator, the tree mutator (insert, move, delete) and the rebalancer,  *)
(* over a store of rows (left, right, level, tree_id).                     *)
(*                                                                         *)
(* Numbers.  A bound held in Python is a Decimal under a context of        *)
(* DECIMAL_PLACES significant digits; it is modelled as an integer count   *)
(* of 10^-Scale.  A bound held in a row is a numeric with DECIMAL_PLACES   *)
(* decimal places; it is modelled as an integer count of                   *)
(* 10^-DECIMAL_PLACES.  MemPerRow converts between the two.                *)
(***************************************************************************)
EXTENDS Integers, Sequences, FiniteSets, TLC

\* ------------------------------------------------------------------ bounds

\* conf.DECIMAL_PLACES, the context precision and the columns' decimal places,
\* as Spec, SpecSave and SpecExhausted configure it.
DECIMAL_PLACES == 1

\* conf.DECIMAL_PLACES as SpecWide configures it.
WideDecimalPlaces == 2

\* Primary keys the store hands out: 1..MaxPk, never reused.
MaxPk == 4

\* Tree ids uuid4 hands out: 1..MaxTree, never reused.
MaxTree == 3

\* Calls (insert, move, delete, rebalance) in one run of the model.
MaxCalls == 6
\* The calls explored from the exhausted tree of SpecExhausted.
ExhaustedCalls == 3

\* The calls explored by SpecUnsaved.
UnsavedCalls == 3

\* The largest row bound SpecAllocate passes to _calculate_sub_interval.
MaxBound == 120

\* The largest count SpecAllocate passes to _calculate_sub_interval.
MaxCount == 4

\* ------------------------------------------------------------------- state

VARIABLES
    store,      \* the table: pk -> [left, right, level, tree_id], bounds in row units
    nextPk,     \* the next primary key of the table's sequence
    nextTree,   \* the next value uuid.uuid4() returns
    last,       \* the last call: its operation, arguments and outcome
    calls,      \* the number of calls made so far
    inst,       \* a model instance a caller keeps in memory between calls
    places,     \* conf.DECIMAL_PLACES of the running installation
    alloc       \* a call of _calculate_sub_interval: its arguments and its result

vars == <<store, nextPk, nextTree, last, calls, inst, places, alloc>>

\* ------------------------------------------------------- decimal arithmetic

RECURSIVE Pow10(_)
Pow10(n) == IF n = 0 THEN 1 ELSE 10 * Pow10(n - 1)

\* Decimal places of an in-memory Decimal that the model keeps exactly.
Scale == 2 * places + 1

MemPerRow == Pow10(Scale - places)

MemOne == Pow10(Scale)

Abs(x) == IF x < 0 THEN -x ELSE x

Sgn(x) == IF x < 0 THEN -1 ELSE 1

RECURSIVE Digits(_)
Digits(n) == IF n < 10 THEN 1 ELSE 1 + Digits(n \div 10)

\* n / d for n >= 0, d > 0, rounded to an integer, ties to even
\* (decimal.ROUND_HALF_EVEN, the default context's rounding).
RoundHalfEven(n, d) ==
    LET q == n \div d
        r == n % d
    IN  IF 2 * r > d \/ (2 * r = d /\ q % 2 = 1) THEN q + 1 ELSE q

\* The context's rounding of an exact result to DECIMAL_PLACES significant digits.
ContextRound(x) ==
    LET a == Abs(x)
        d == Digits(a)
    IN  IF d <= places THEN x
        ELSE LET unit == Pow10(d - places)
             IN  Sgn(x) * RoundHalfEven(a, unit) * unit

DecAdd(a, b) == ContextRound(a + b)

DecSub(a, b) == ContextRound(a - b)

\* Decimal a divided by the positive integer n: the exact quotient rounded to
\* DECIMAL_PLACES significant digits.
DecDiv(a, n) ==
    LET m == Abs(a)
        d == Digits(m \div n)
        unit == IF d > places THEN Pow10(d - places) ELSE 1
    IN  Sgn(a) * RoundHalfEven(m, n * unit) * unit

\* A row bound as the Decimal a loaded model instance holds.
ToMem(v) == v * MemPerRow

\* A Decimal written to a DecimalField(decimal_places=DECIMAL_PLACES) column:
\* the numeric column rounds to its scale, ties away from zero.
Quantize(x) == Sgn(x) * ((2 * Abs(x) + MemPerRow) \div (2 * MemPerRow))

\* -------------------------------------------------------------------- store

\* target=None
None == [pk |-> 0, left |-> 0, right |-> 0, level |-> 0, tree_id |-> 0]

Positions == {"first-child", "last-child", "left", "right"}

Pks(s) == DOMAIN s

\* Model.objects.get(pk=p): a model instance holding the row's values.
Load(s, p) ==
    [pk |-> p, left |-> s[p].left, right |-> s[p].right,
     level |-> s[p].level, tree_id |-> s[p].tree_id]

\* A selection of descendants by bounds alone, in whatever tree they are.
GetDescendantsAnyTree(s, h, include_self) ==
    IF include_self
    THEN {p \in Pks(s) : \/ /\ s[p].left >= h.left
                            /\ s[p].left <= h.right
                         \/ p = h.pk}
    ELSE {p \in Pks(s) : /\ s[p].left > h.left
                         /\ s[p].left < h.right
                         /\ p # h.pk}

\* NestedIntervalsModel.get_descendants
GetDescendants(s, h, include_self) ==
    IF include_self
    THEN {p \in Pks(s) : \/ /\ s[p].left >= h.left
                            /\ s[p].left <= h.right
                            /\ s[p].tree_id = h.tree_id
                         \/ p = h.pk}
    ELSE {p \in Pks(s) : /\ s[p].left > h.left
                         /\ s[p].left < h.right
                         /\ s[p].tree_id = h.tree_id
                         /\ p # h.pk}

\* NestedIntervalsModel.get_descendant_count
GetDescendantCount(s, h) == Cardinality(GetDescendants(s, h, FALSE))

\* NestedIntervalsModel.get_children
GetChildren(s, h) == {p \in GetDescendants(s, h, FALSE) : s[p].level = h.level + 1}

\* QuerySet.first() under order_by("tree_id", "left"): the rows a backend may
\* return first; rows with equal keys come in no defined order.
FirstOf(s, S) == {p \in S : \A q \in S : s[p].left <= s[q].left}

\* QuerySet.last() under the same ordering.
LastOf(s, S) == {p \in S : \A q \in S : s[p].left >= s[q].left}

\* NestedIntervalsModel.is_root_node
IsRootNode(h) == h.level = 0

\* NestedIntervalsModel._is_saved: the instance has a pk and a tree_id
\* (0: None).
IsSaved(h) == h.pk # 0 /\ h.tree_id # 0

\* A decorator that lets every instance through.
RaiseIfUnsavedNever(h) == "ok"

\* models.raise_if_unsaved: the error the decorated method raises before its
\* body runs ("ok": none).
RaiseIfUnsaved(h) == IF h.pk = 0 THEN "ValueError" ELSE "ok"

\* The tree queries of an instance that raise_if_unsaved decorates.
TreeQueries ==
    {"get_ancestors", "get_family", "get_children", "get_descendants",
     "get_next_sibling", "get_previous_sibling", "get_root", "get_siblings"}

\* NestedIntervalsModel.parent of a loaded instance with no pending parent:
\* the pks the query's first() may return (empty: None).
Parent(s, h) ==
    IF h.level = 0 THEN {}
    ELSE FirstOf(s, {p \in Pks(s) : /\ s[p].left < h.left
                                     /\ s[p].right > h.right
                                     /\ s[p].level = h.level - 1
                                     /\ s[p].tree_id = h.tree_id})

\* NestedIntervalsModel.is_descendant_of (include_self=False)
IsDescendantOf(h, other) ==
    IF h.tree_id # other.tree_id THEN FALSE
    ELSE h.left > other.left /\ h.right < other.right

\* NestedIntervalsModel.is_ancestor_of (include_self=False)
IsAncestorOf(h, other) == IsDescendantOf(other, h)

\* NestedIntervalsModel.get_previous_sibling of a non-root instance whose parent is par
GetPreviousSibling(s, h, par) ==
    LastOf(s, {p \in GetChildren(s, Load(s, par)) : s[p].right < h.left})

\* NestedIntervalsModel.get_next_sibling of a non-root instance whose parent is par
GetNextSibling(s, h, par) ==
    FirstOf(s, {p \in GetChildren(s, Load(s, par)) : s[p].left > h.right})

\* ---------------------------------------------------------------- intervals

Ok(l, r, inc) == [err |-> "ok", left |-> l, right |-> r, increment |-> inc]

Raise(e) == [err |-> e, left |-> 0, right |-> 0, increment |-> 0]

\* Decimal("2") * count + Decimal("1")
TwoCountPlusOne(count) == ContextRound(ContextRound(2 * count) + 1)

\* Decimal("2") * count - Decimal("1")
TwoCountMinusOne(count) == ContextRound(ContextRound(2 * count) - 1)

\* A sub-interval computation that never reports an exhausted gap.
CalculateSubIntervalNeverRaising(outerleft, outerright, count) ==
    LET outerrange == DecSub(outerright, outerleft)
        increment == DecDiv(outerrange, TwoCountPlusOne(count))
        left == DecAdd(outerleft, increment)
        right == DecSub(outerright, increment)
    IN  Ok(left, right, increment)

\* intervals._calculate_sub_interval, on Decimals
CalculateSubInterval(outerleft, outerright, count) ==
    LET outerrange == DecSub(outerright, outerleft)
        increment == DecDiv(outerrange, TwoCountPlusOne(count))
        left == DecAdd(outerleft, increment)
        right == DecSub(outerright, increment)
    IN  IF left = right THEN Raise("IntervalTooSmall")
        ELSE Ok(left, right, increment)

\* The outer ranges get_interval_for_insertion_relative_to may pass to
\* _calculate_sub_interval for a saved target (several when rows tie in the
\* ordering), as pairs of row bounds; {} when target.parent is None.
OuterRanges(s, target, position) ==
    CASE position = "first-child" ->
            LET first_child == FirstOf(s, GetChildren(s, target))
            IN  IF first_child # {}
                THEN {<<target.left, s[c].left>> : c \in first_child}
                ELSE {<<target.left, target.right>>}
      [] position = "last-child" ->
            LET last_child == LastOf(s, GetChildren(s, target))
            IN  IF last_child # {}
                THEN {<<s[c].right, target.right>> : c \in last_child}
                ELSE {<<target.left, target.right>>}
      [] position = "left" ->
            UNION {LET previous == GetPreviousSibling(s, target, par)
                   IN  IF previous # {}
                       THEN {<<s[c].right, target.left>> : c \in previous}
                       ELSE {<<s[q].left, target.left>> : q \in Parent(s, target)}
                   : par \in Parent(s, target)}
      [] position = "right" ->
            UNION {LET nxt == GetNextSibling(s, target, par)
                   IN  IF nxt # {}
                       THEN {<<target.right, s[c].left>> : c \in nxt}
                       ELSE {<<target.right, s[q].right>> : q \in Parent(s, target)}
                   : par \in Parent(s, target)}

\* An allocation that does not refuse the sibling positions of a root target.
GetIntervalForInsertionRelativeToAnyTarget(s, target, position, count) ==
    IF position \notin Positions THEN {Raise("ValueError")}
    ELSE IF target = None
    THEN {Ok(0, MemOne, DecDiv(MemOne, TwoCountMinusOne(count)))}
    ELSE IF ~IsSaved(target) THEN {Raise("ValueError")}
    ELSE LET outer == OuterRanges(s, target, position)
         IN  IF outer = {} THEN {Raise("AttributeError")}
             ELSE {CalculateSubInterval(ToMem(o[1]), ToMem(o[2]), count) : o \in outer}

\* An allocation whose root case divides the whole range by 2 * count + 1.
GetIntervalForInsertionRelativeToRootPlusOne(s, target, position, count) ==
    IF position \notin Positions THEN {Raise("ValueError")}
    ELSE IF target = None
    THEN {Ok(0, MemOne, DecDiv(MemOne, TwoCountPlusOne(count)))}
    ELSE IF ~IsSaved(target) THEN {Raise("ValueError")}
    ELSE IF position \in {"left", "right"} /\ IsRootNode(target)
    THEN {Raise("ValueError")}
    ELSE LET outer == OuterRanges(s, target, position)
         IN  IF outer = {} THEN {Raise("AttributeError")}
             ELSE {CalculateSubInterval(ToMem(o[1]), ToMem(o[2]), count) : o \in outer}

\* intervals.get_interval_for_insertion_relative_to: the set of its possible
\* results; target is None or a loaded instance.
GetIntervalForInsertionRelativeTo(s, target, position, count) ==
    IF position \notin Positions THEN {Raise("ValueError")}
    ELSE IF target = None
    THEN {Ok(0, MemOne, DecDiv(MemOne, TwoCountMinusOne(count)))}
    ELSE IF ~IsSaved(target) THEN {Raise("ValueError")}
    ELSE IF position \in {"left", "right"} /\ IsRootNode(target)
    THEN {Raise("ValueError")}
    ELSE LET outer == OuterRanges(s, target, position)
         IN  IF outer = {} THEN {Raise("AttributeError")}
             ELSE {CalculateSubInterval(ToMem(o[1]), ToMem(o[2]), count) : o \in outer}

\* ---------------------------------------------------------------- rebalance

\* A queryset in manager order ("tree_id", "left") fetched from s: the
\* sequences of instances a backend may return.
RECURSIVE Fetch(_, _)
Fetch(s, S) ==
    IF S = {} THEN {<<>>}
    ELSE UNION {{<<Load(s, p)>> \o rest : rest \in Fetch(s, S \ {p})} : p \in FirstOf(s, S)}

\* self.filter(pk=pk).update(left=left, right=right)
UpdateBounds(s, pk, left, right) ==
    IF pk \in Pks(s)
    THEN [s EXCEPT ![pk].left = Quantize(left), ![pk].right = Quantize(right)]
    ELSE s

\* The primary keys of a sequence of instances.
PksOf(instances) == [i \in 1..Len(instances) |-> instances[i].pk]

\* NestedIntervalsManager._rebalance_helper: the set of possible
\* [store, ret, visits] (the table after the call, the value returned, and the
\* calls of the helper in the order they wrote: the node and the children its
\* loop went through).  Children is the loop "for child in
\* node.get_children()" from its i-th instance on.
RECURSIVE RebalanceHelper(_, _, _, _), Children(_, _, _, _, _)
RebalanceHelper(s, node, left, increment) ==
    LET right == DecAdd(left, increment)
    IN  UNION {
          {[store |-> UpdateBounds(r.store, node.pk, left, r.ret),
            ret |-> DecAdd(r.ret, increment),
            visits |-> r.visits \o <<[node |-> node.pk, children |-> PksOf(children)]>>]
           : r \in Children(s, children, 1, right, increment)}
          : children \in Fetch(s, GetChildren(s, node))}

Children(s, children, i, right, increment) ==
    IF i > Len(children) THEN {[store |-> s, ret |-> right, visits |-> <<>>]}
    ELSE UNION {{[store |-> rest.store, ret |-> rest.ret, visits |-> r.visits \o rest.visits]
                 : rest \in Children(r.store, children, i + 1, r.ret, increment)}
                : r \in RebalanceHelper(s, children[i], right, increment)}

\* NestedIntervalsManager.root_node: the pks filter(tree_id, level=0) matches;
\* get() raises unless there is exactly one.
RootNode(s, tree_id) == {p \in Pks(s) : s[p].tree_id = tree_id /\ s[p].level = 0}

\* NestedIntervalsManager.rebalance_tree: the set of possible [err, store].
RebalanceTree(s, tree_id) ==
    LET roots == RootNode(s, tree_id)
    IN  IF Cardinality(roots) = 0 THEN {[err |-> "DoesNotExist", store |-> s]}
        ELSE IF Cardinality(roots) > 1
        THEN {[err |-> "MultipleObjectsReturned", store |-> s]}
        ELSE LET root == Load(s, CHOOSE p \in roots : TRUE)
                 count == Cardinality(GetDescendants(s, root, TRUE))
             IN  UNION {
                   {[err |-> "ok", store |-> r.store]
                    : r \in RebalanceHelper(s, root, interval.left, interval.increment)}
                   : interval \in GetIntervalForInsertionRelativeTo(s, None, "last-child", count)}

\* A rebalance-and-retry that retries with the target as the caller loaded
\* it, not re-read from the table.
GetIntervalWithRebalanceStaleTarget(s, target, position, count) ==
    UNION {
      IF interval.err # "IntervalTooSmall"
      THEN {[err |-> interval.err, interval |-> interval, store |-> s, rebalanced |-> FALSE]}
      ELSE UNION {
             IF reb.err # "ok"
             THEN {[err |-> reb.err, interval |-> interval, store |-> s, rebalanced |-> TRUE]}
             ELSE {[err |-> retry.err, interval |-> retry, store |-> reb.store,
                    rebalanced |-> TRUE]
                   : retry \in GetIntervalForInsertionRelativeTo(
                                  reb.store, target, position, 1)}
             : reb \in RebalanceTree(s, target.tree_id)}
      : interval \in GetIntervalForInsertionRelativeTo(s, target, position, count)}

\* NestedIntervalsManager.get_interval_for_insertion_relative_to_with_rebalance:
\* the set of possible [err, interval, store, rebalanced].
GetIntervalWithRebalance(s, target, position, count) ==
    UNION {
      IF interval.err # "IntervalTooSmall"
      THEN {[err |-> interval.err, interval |-> interval, store |-> s, rebalanced |-> FALSE]}
      ELSE UNION {
             IF reb.err # "ok"
             THEN {[err |-> reb.err, interval |-> interval, store |-> s, rebalanced |-> TRUE]}
             ELSE IF target.pk \notin Pks(reb.store)
             THEN {[err |-> "DoesNotExist", interval |-> interval, store |-> s,
                    rebalanced |-> TRUE]}
             ELSE {[err |-> retry.err, interval |-> retry, store |-> reb.store,
                    rebalanced |-> TRUE]
                   : retry \in GetIntervalForInsertionRelativeTo(
                                  reb.store, Load(reb.store, target.pk), position, 1)}
             : reb \in RebalanceTree(s, target.tree_id)}
      : interval \in GetIntervalForInsertionRelativeTo(s, target, position, count)}

\* ------------------------------------------------------------ range conversion

\* n / (d * MemPerRow) for the two-limb n = hi * MemPerRow + lo, 0 <= lo < MemPerRow,
\* hi >= 0, d > 0, rounded to an integer, ties away from zero.
RoundLimbs(hi, lo, d) == (2 * hi + d + ((2 * lo) \div MemPerRow)) \div (2 * d)

\* The expression intervals.get_range_conversion_f_expression_generator builds,
\* (((F(field) - old_left) * new_size) / old_size) + new_left, evaluated by the
\* database on the row bound x and rounded by the column to its scale.
\* old_left is a row bound, old_size a Decimal that is a whole number of row
\* units, new_size and new_left are Decimals.  The exact value is
\* ((x - old_left) * new_size + new_left * old_size) / old_size; the
\* numerator is kept in two limbs so that no product leaves the integers TLC has.
ConvertRange(x, old_left, old_size, new_size, new_left) ==
    LET d == Abs(old_size) \div MemPerRow
        a == Sgn(old_size) * (x - old_left)
        hi0 == a * (new_size \div MemPerRow) + (new_left \div MemPerRow) * d
        lo0 == a * (new_size % MemPerRow) + (new_left % MemPerRow) * d
        hi == hi0 + (lo0 \div MemPerRow)
        lo == lo0 % MemPerRow
    IN  IF hi >= 0 THEN RoundLimbs(hi, lo, d)
        ELSE IF lo = 0 THEN -RoundLimbs(-hi, 0, d)
        ELSE -RoundLimbs(-hi - 1, MemPerRow - lo, d)

\* ------------------------------------------------------------------ mutator

\* A row as it is written from Decimals (DecimalField columns round to scale).
Row(left, right, level, tree_id) ==
    [left |-> Quantize(left), right |-> Quantize(right),
     level |-> level, tree_id |-> tree_id]

\* The largest magnitude a DecimalField(max_digits=DECIMAL_PLACES+1,
\* decimal_places=DECIMAL_PLACES) column holds, in row units, plus one.
ColumnLimit == 10 * Pow10(places)

\* An insert_node outside a transaction: what the rebalance wrote stays when
\* the retry raises.
InsertNodeNoRollback(s, pk, target, position, uuid) ==
    IF target = None
    THEN {[err |-> "ok", rebalanced |-> FALSE,
           store |-> (pk :> Row(0, MemOne, 0, uuid)) @@ s]}
    ELSE {IF w.err # "ok"
          THEN [err |-> w.err, rebalanced |-> w.rebalanced, store |-> w.store]
          ELSE [err |-> "ok", rebalanced |-> w.rebalanced,
                store |-> (pk :> Row(w.interval.left, w.interval.right,
                                     IF position \in {"first-child", "last-child"}
                                     THEN target.level + 1 ELSE target.level,
                                     target.tree_id)) @@ w.store]
          : w \in GetIntervalWithRebalance(s, target, position, 1)}

\* NestedIntervalsManager.insert_node(node, target, position, save=True) for an
\* unsaved node that the table will store under pk; uuid is the value
\* uuid.uuid4() returns.  The set of possible [err, store, rebalanced]; a call
\* that raises leaves the table as it was (transaction.atomic).
InsertNode(s, pk, target, position, uuid) ==
    IF target = None
    THEN {[err |-> "ok", rebalanced |-> FALSE,
           store |-> (pk :> Row(0, MemOne, 0, uuid)) @@ s]}
    ELSE {IF w.err # "ok"
          THEN [err |-> w.err, rebalanced |-> w.rebalanced, store |-> s]
          ELSE [err |-> "ok", rebalanced |-> w.rebalanced,
                store |-> (pk :> Row(w.interval.left, w.interval.right,
                                     IF position \in {"first-child", "last-child"}
                                     THEN target.level + 1 ELSE target.level,
                                     target.tree_id)) @@ w.store]
          : w \in GetIntervalWithRebalance(s, target, position, 1)}

\* NestedIntervalsManager.insert_node(node, target, position, save=True) for
\* the instance node: a node that is already saved is refused.
InsertNodeOf(s, node, pk, target, position, uuid) ==
    IF IsSaved(node)
    THEN {[err |-> "ValueError", rebalanced |-> FALSE, store |-> s]}
    ELSE InsertNode(s, pk, target, position, uuid)

\* NestedIntervalsManager.insert_node(node, target, position, save=False) for
\* an unsaved node: the fields are set on the instance and no row is written,
\* while what a rebalance wrote stays.  The set of possible
\* [err, store, rebalanced, node]; node holds the bounds as a column would
\* store them.
InsertNodeUnsaved(s, target, position, uuid) ==
    {IF out.err # "ok"
     THEN [err |-> out.err, rebalanced |-> out.rebalanced, store |-> s, node |-> None]
     ELSE [err |-> "ok", rebalanced |-> out.rebalanced,
           store |-> [p \in Pks(out.store) \ {0} |-> out.store[p]],
           node |-> [pk |-> 0, left |-> out.store[0].left, right |-> out.store[0].right,
                     level |-> out.store[0].level, tree_id |-> out.store[0].tree_id]]
     : out \in InsertNode(s, 0, target, position, uuid)}

\* _move_node, lines 145-154: level_offset
LevelOffset(node, target, position) ==
    IF target = None THEN -node.level
    ELSE IF position \in {"left", "right"} THEN target.level - node.level
    ELSE target.level + 1 - node.level

\* _move_node, lines 145-154: new_tree_id (0: None, the tree_id is kept)
NewTreeId(node, target, uuid) ==
    IF target = None THEN uuid
    ELSE IF target.tree_id # node.tree_id THEN target.tree_id ELSE 0

\* An update of the descendants that selects the rows by their bounds alone,
\* in whatever tree they are.
UpdateDescendantsAnyTree(s, node, interval, level_offset, new_tree_id) ==
    LET old_size == DecSub(ToMem(node.right), ToMem(node.left))
        new_size == DecSub(interval.right, interval.left)
        conv(x) == ConvertRange(x, node.left, old_size, new_size, interval.left)
        sel == {p \in Pks(s) : /\ s[p].left > node.left
                              /\ s[p].left < node.right
                              /\ p # node.pk}
    IN  IF sel = {} THEN [err |-> "ok", store |-> s]
        ELSE IF old_size = 0 THEN [err |-> "DatabaseError", store |-> s]
        ELSE IF \E p \in sel : \/ s[p].level + level_offset < 0
                               \/ Abs(conv(s[p].left)) >= ColumnLimit
                               \/ Abs(conv(s[p].right)) >= ColumnLimit
        THEN [err |-> "DatabaseError", store |-> s]
        ELSE [err |-> "ok",
              store |-> [p \in Pks(s) |->
                  IF p \in sel
                  THEN [left |-> conv(s[p].left),
                        right |-> conv(s[p].right),
                        level |-> s[p].level + level_offset,
                        tree_id |-> IF new_tree_id # 0 THEN new_tree_id
                                    ELSE s[p].tree_id]
                  ELSE s[p]]]

\* _move_node, lines 156-166: node.get_descendants().update(**updates) on the
\* table s, by the instance node as the caller holds it.
UpdateDescendants(s, node, interval, level_offset, new_tree_id) ==
    LET old_size == DecSub(ToMem(node.right), ToMem(node.left))
        new_size == DecSub(interval.right, interval.left)
        conv(x) == ConvertRange(x, node.left, old_size, new_size, interval.left)
        sel == GetDescendants(s, node, FALSE)
    IN  IF sel = {} THEN [err |-> "ok", store |-> s]
        ELSE IF old_size = 0 THEN [err |-> "DatabaseError", store |-> s]
        ELSE IF \E p \in sel : \/ s[p].level + level_offset < 0
                               \/ Abs(conv(s[p].left)) >= ColumnLimit
                               \/ Abs(conv(s[p].right)) >= ColumnLimit
        THEN [err |-> "DatabaseError", store |-> s]
        ELSE [err |-> "ok",
              store |-> [p \in Pks(s) |->
                  IF p \in sel
                  THEN [left |-> conv(s[p].left),
                        right |-> conv(s[p].right),
                        level |-> s[p].level + level_offset,
                        tree_id |-> IF new_tree_id # 0 THEN new_tree_id
                                    ELSE s[p].tree_id]
                  ELSE s[p]]]

\* NestedIntervalsManager.move_node(node, target, position): _move_node and
\* node.save(nested_intervals_update_in_progress=True), in one transaction.
\* node and target are instances the caller loaded from s (target may be None).
\* The set of possible [err, store, rebalanced].
MoveNode(s, node, target, position, uuid) ==
    IF node.pk = target.pk
    THEN {[err |-> "InvalidMove", rebalanced |-> FALSE, store |-> s]}
    ELSE IF target # None /\ IsAncestorOf(node, target)
    THEN {[err |-> "InvalidMove", rebalanced |-> FALSE, store |-> s]}
    ELSE LET descendant_count == GetDescendantCount(s, node)
             level_offset == LevelOffset(node, target, position)
             new_tree_id == NewTreeId(node, target, uuid)
         IN  {IF w.err # "ok"
              THEN [err |-> w.err, rebalanced |-> w.rebalanced, store |-> s]
              ELSE LET u == IF descendant_count # 0
                            THEN UpdateDescendants(w.store, node, w.interval,
                                                   level_offset, new_tree_id)
                            ELSE [err |-> "ok", store |-> w.store]
                   IN  IF u.err # "ok"
                       THEN [err |-> u.err, rebalanced |-> w.rebalanced, store |-> s]
                       ELSE [err |-> "ok", rebalanced |-> w.rebalanced,
                             store |-> (node.pk :>
                                 Row(w.interval.left, w.interval.right,
                                     node.level + level_offset,
                                     IF new_tree_id # 0 THEN new_tree_id
                                     ELSE node.tree_id)) @@ u.store]
              : w \in GetIntervalWithRebalance(s, target, position, descendant_count + 1)}

\* NestedIntervalsModel.delete
DeleteNode(s, node) ==
    LET gone == GetDescendants(s, node, TRUE)
    IN  [p \in Pks(s) \ gone |-> s[p]]

\* ---------------------------------------------------------------- instances

\* No instance is kept.
NoInstance == [pending |-> FALSE, changed |-> FALSE, node |-> None, new_parent |-> None]

\* Model.objects.get(pk=...): an instance holding the row's values, with
\* _new_parent = False and _nested_intervals_fields_have_changed = False.
Instance(node) ==
    [pending |-> FALSE, changed |-> FALSE, node |-> node, new_parent |-> None]

\* NestedIntervalsModel.parent setter: instance.parent = newparent, for a saved
\* newparent or None.
AssignParent(node, newparent) ==
    [pending |-> TRUE, changed |-> TRUE, node |-> node, new_parent |-> newparent]

\* An instance that insert_at(target, position, save=False) has set up:
\* _nested_intervals_fields_have_changed = True, no parent assigned.
SetUp(node) ==
    [pending |-> FALSE, changed |-> TRUE, node |-> node, new_parent |-> None]

\* NestedIntervalsModel.parent setter on the instance i: an unsaved newparent
\* is refused.  [err, inst]
ParentSetter(i, newparent) ==
    IF newparent # None /\ ~IsSaved(newparent)
    THEN [err |-> "ValueError", inst |-> i]
    ELSE [err |-> "ok", inst |-> AssignParent(i.node, newparent)]

\* The error a tree query raises on the instance h ("ok": it returns).  The
\* sibling queries go through self.parent, get_root through a get().
QueryError(s, query, h) ==
    IF RaiseIfUnsaved(h) # "ok" THEN RaiseIfUnsaved(h)
    ELSE IF IsRootNode(h) THEN "ok"
    ELSE IF query \in {"get_next_sibling", "get_previous_sibling", "get_siblings"}
    THEN (IF Parent(s, h) = {} THEN "AttributeError" ELSE "ok")
    ELSE IF query = "get_root"
    THEN (IF Cardinality(RootNode(s, h.tree_id)) = 0 THEN "DoesNotExist"
          ELSE IF Cardinality(RootNode(s, h.tree_id)) > 1 THEN "MultipleObjectsReturned"
          ELSE "ok")
    ELSE "ok"

\* NestedIntervalsModel.parent getter: the pks it may return ({}: None).
GetParent(s, i) ==
    IF i.pending
    THEN (IF i.new_parent = None THEN {} ELSE {i.new_parent.pk})
    ELSE Parent(s, i.node)

\* Model.save() of the instance's row with all its fields: an UPDATE of the
\* row, or an INSERT when the row is gone.
WriteRow(s, node) ==
    (node.pk :> [left |-> node.left, right |-> node.right,
                 level |-> node.level, tree_id |-> node.tree_id]) @@ s

\* Model.save(update_fields=<user fields>): no tree field is written; the
\* call raises when update_fields is not empty and the row is gone.
WriteUserFields(s, i) ==
    IF i.node.pk \in Pks(s)
    THEN {[err |-> "ok", store |-> s, rebalanced |-> FALSE, inst |-> i]}
    ELSE {[err |-> e, store |-> s, rebalanced |-> FALSE, inst |-> i]
          : e \in {"ok", "DatabaseError"}}

\* A save that forgets the assigned parent when the move raises.
SaveInstanceForgetting(s, i, uuid) ==
    IF i.pending
    THEN {[err |-> out.err, store |-> out.store, rebalanced |-> out.rebalanced,
           inst |-> NoInstance]
          : out \in MoveNode(s, i.node, i.new_parent, "last-child", uuid)}
    ELSE IF i.changed
    THEN {[err |-> "ok", store |-> WriteRow(s, i.node), rebalanced |-> FALSE,
           inst |-> Instance(i.node)]}
    ELSE WriteUserFields(s, i)

\* A save that writes every field of the instance, changed or not.
SaveInstanceWritingAll(s, i, uuid) ==
    IF i.pending
    THEN {[err |-> out.err, store |-> out.store, rebalanced |-> out.rebalanced,
           inst |-> IF out.err = "ok" THEN NoInstance ELSE i]
          : out \in MoveNode(s, i.node, i.new_parent, "last-child", uuid)}
    ELSE {[err |-> "ok", store |-> WriteRow(s, i.node), rebalanced |-> FALSE,
           inst |-> Instance(i.node)]}

\* NestedIntervalsModel.save() of a saved instance.  With an assigned parent:
\* _move_node(self, self._new_parent, 'last-child'), then _new_parent = False
\* and the row is written; the caller lets go of the instance.  Without one:
\* all fields are written if the tree fields were changed on the instance, the
\* user fields only if not, and the instance stays as it is.  An exception
\* leaves the instance and the table as they were (transaction.atomic).
\* The set of possible [err, store, rebalanced, inst].
SaveInstance(s, i, uuid) ==
    IF i.pending
    THEN {[err |-> out.err, store |-> out.store, rebalanced |-> out.rebalanced,
           inst |-> IF out.err = "ok" THEN NoInstance ELSE i]
          : out \in MoveNode(s, i.node, i.new_parent, "last-child", uuid)}
    ELSE IF i.changed
    THEN {[err |-> "ok", store |-> WriteRow(s, i.node), rebalanced |-> FALSE,
           inst |-> Instance(i.node)]}
    ELSE WriteUserFields(s, i)

\* NestedIntervalsModel.save() of an unsaved instance: insert_at(
\* self._new_parent or None, 'last-child'), then the row is written under pk.
\* The set of possible [err, store, rebalanced].
SaveNewInstance(s, i, pk, uuid) ==
    InsertNodeOf(s, i.node, pk, IF i.pending THEN i.new_parent ELSE None,
                 "last-child", uuid)

\* ------------------------------------------------------------------ actions

Call(op, node, target, position, err, rebalanced) ==
    [op |-> op, node |-> node, target |-> target, position |-> position,
     err |-> err, rebalanced |-> rebalanced]

\* No call of _calculate_sub_interval is followed on its own.
NoAllocation ==
    [outerleft |-> 0, outerright |-> 0, count |-> 0, returned |-> FALSE, result |-> Raise("")]

\* The empty table of an installation configured with decimal_places.
Installed(decimal_places) ==
    /\ places = decimal_places
    /\ store = <<>>
    /\ nextPk = 1
    /\ nextTree = 1
    /\ last = Call("init", 0, 0, "", "ok", FALSE)
    /\ calls = 0
    /\ inst = NoInstance
    /\ alloc = NoAllocation

Init == Installed(DECIMAL_PLACES)

\* One more call, while the model's budget of calls lasts.
Called ==
    /\ calls < MaxCalls
    /\ calls' = calls + 1
    /\ places' = places
    /\ alloc' = alloc

\* Model(parent=None).save(), or insert_at(None, ..., save=True): a new tree.
InsertRoot ==
    /\ Called
    /\ nextPk <= MaxPk
    /\ nextTree <= MaxTree
    /\ \E out \in InsertNode(store, nextPk, None, "last-child", nextTree) :
          /\ store' = out.store
          /\ last' = Call("insert", nextPk, 0, "last-child", out.err, out.rebalanced)
    /\ nextPk' = nextPk + 1
    /\ nextTree' = nextTree + 1
    /\ UNCHANGED inst

\* node.insert_at(target, position, save=True) for a new node and a saved target.
Insert(t, position) ==
    /\ Called
    /\ nextPk <= MaxPk
    /\ t \in Pks(store)
    /\ \E out \in InsertNode(store, nextPk, Load(store, t), position, nextTree) :
          /\ store' = out.store
          /\ nextPk' = IF out.err = "ok" THEN nextPk + 1 ELSE nextPk
          /\ last' = Call("insert", nextPk, t, position, out.err, out.rebalanced)
    /\ UNCHANGED <<nextTree, inst>>

\* node.move_to(None, position): the node becomes the root of a new tree.
MoveToRoot(n, position) ==
    /\ Called
    /\ n \in Pks(store)
    /\ nextTree <= MaxTree
    /\ \E out \in MoveNode(store, Load(store, n), None, position, nextTree) :
          /\ store' = out.store
          /\ nextTree' = IF out.err = "ok" THEN nextTree + 1 ELSE nextTree
          /\ last' = Call("move", n, 0, position, out.err, out.rebalanced)
    /\ UNCHANGED <<nextPk, inst>>

\* node.move_to(target, position) for a saved target.
Move(n, t, position) ==
    /\ Called
    /\ n \in Pks(store)
    /\ t \in Pks(store)
    /\ \E out \in MoveNode(store, Load(store, n), Load(store, t), position, nextTree) :
          /\ store' = out.store
          /\ last' = Call("move", n, t, position, out.err, out.rebalanced)
    /\ UNCHANGED <<nextPk, nextTree, inst>>

\* node.delete()
Delete(n) ==
    /\ Called
    /\ n \in Pks(store)
    /\ store' = DeleteNode(store, Load(store, n))
    /\ last' = Call("delete", n, 0, "", "ok", FALSE)
    /\ UNCHANGED <<nextPk, nextTree, inst>>

\* Model.objects.rebalance_tree(tree_id), for the tree_id of a stored node.
Rebalance(n) ==
    /\ Called
    /\ n \in Pks(store)
    /\ \E out \in RebalanceTree(store, store[n].tree_id) :
          /\ store' = out.store
          /\ last' = Call("rebalance", 0, store[n].tree_id, "", out.err, out.err = "ok")
    /\ UNCHANGED <<nextPk, nextTree, inst>>

Next ==
    \/ InsertRoot
    \/ \E t \in 1..MaxPk, position \in Positions : Insert(t, position)
    \/ \E n \in 1..MaxPk, position \in Positions : MoveToRoot(n, position)
    \/ \E n \in 1..MaxPk, t \in 1..MaxPk, position \in Positions : Move(n, t, position)
    \/ \E n \in 1..MaxPk : Delete(n)
    \/ \E n \in 1..MaxPk : Rebalance(n)

Spec == Init /\ [][Next]_vars

\* The same calls on an installation with one more decimal place.
InitWide == Installed(WideDecimalPlaces)

SpecWide == InitWide /\ [][Next]_vars

\* instance = Model.objects.get(pk=n): the caller keeps the instance.
Get(n) ==
    /\ Called
    /\ n \in Pks(store)
    /\ inst' = Instance(Load(store, n))
    /\ last' = Call("get", n, 0, "", "ok", FALSE)
    /\ UNCHANGED <<store, nextPk, nextTree>>

\* instance.parent = p (p = 0: None), on the kept instance of n if there is
\* one, which keeps the values it was loaded with, and on a fresh one if not.
SetParent(n, p) ==
    /\ Called
    /\ n \in Pks(store)
    /\ p \in Pks(store) \cup {0}
    /\ inst' = AssignParent(IF inst.node.pk = n THEN inst.node ELSE Load(store, n),
                            IF p = 0 THEN None ELSE Load(store, p))
    /\ last' = Call("set-parent", n, p, "last-child", "ok", FALSE)
    /\ UNCHANGED <<store, nextPk, nextTree>>

\* instance.save() on the kept instance, which is saved.
Save ==
    /\ Called
    /\ inst # NoInstance
    /\ IsSaved(inst.node)
    /\ (inst.pending /\ inst.new_parent = None) => nextTree <= MaxTree
    /\ \E out \in SaveInstance(store, inst, nextTree) :
          /\ store' = out.store
          /\ inst' = out.inst
          /\ nextTree' = IF out.err = "ok" /\ inst.pending /\ inst.new_parent = None
                         THEN nextTree + 1 ELSE nextTree
          /\ last' = Call("save", inst.node.pk, inst.new_parent.pk, "last-child",
                          out.err, out.rebalanced)
    /\ UNCHANGED nextPk

\* The calls of Spec, and saves through a kept instance between them.
NextSave ==
    \/ Next
    \/ \E n \in 1..MaxPk : Get(n)
    \/ \E n \in 1..MaxPk, p \in 0..MaxPk : SetParent(n, p)
    \/ Save

SpecSave == Init /\ [][NextSave]_vars

\* A tree whose gaps are used up, in units of 10^-1 scaled to the column:
\* root 1 (0, 1), its child 2 (0.2, 0.8), 2's child 3 (0.4, 0.6), and node 4
\* inserted left of 2 into the gap (0, 0.2), which the column stores as
\* (0.1, 0.1).  Spec reaches it by insert_node(1, None), insert_node(2, None),
\* insert_node(3, 2, 'first-child'), move_node(2, 1, 'first-child'),
\* insert_node(4, 2, 'left').
ExhaustedStore ==
    LET u == Pow10(places - 1)
    IN  <<[left |-> 0, right |-> 10 * u, level |-> 0, tree_id |-> 1],
          [left |-> 2 * u, right |-> 8 * u, level |-> 1, tree_id |-> 1],
          [left |-> 4 * u, right |-> 6 * u, level |-> 2, tree_id |-> 1],
          [left |-> u, right |-> u, level |-> 1, tree_id |-> 1]>>

AtExhausted == store = ExhaustedStore /\ nextPk = 5 /\ nextTree = 3

InitExhausted ==
    /\ places = DECIMAL_PLACES
    /\ AtExhausted
    /\ last = Call("insert", 4, 2, "left", "ok", FALSE)
    /\ calls = MaxCalls - ExhaustedCalls
    /\ inst = NoInstance
    /\ alloc = NoAllocation

\* The calls on stored nodes: moves, deletes and rebalances.
NextExhausted ==
    \/ \E n \in 1..MaxPk, position \in Positions : MoveToRoot(n, position)
    \/ \E n \in 1..MaxPk, t \in 1..MaxPk, position \in Positions : Move(n, t, position)
    \/ \E n \in 1..MaxPk : Delete(n)
    \/ \E n \in 1..MaxPk : Rebalance(n)

SpecExhausted == InitExhausted /\ [][NextExhausted]_vars

\* node = Model(); node.insert_at(target, position): save is False, the caller
\* keeps the instance (t = 0: target is None).
InsertAt(t, position) ==
    /\ Called
    /\ t \in Pks(store) \cup {0}
    /\ t = 0 => nextTree <= MaxTree
    /\ \E out \in InsertNodeUnsaved(store, IF t = 0 THEN None ELSE Load(store, t),
                                     position, nextTree) :
          /\ store' = out.store
          /\ inst' = IF out.err = "ok" THEN SetUp(out.node) ELSE inst
          /\ nextTree' = IF out.err = "ok" /\ t = 0 THEN nextTree + 1 ELSE nextTree
          /\ last' = Call("insert-at", 0, t, position, out.err, out.rebalanced)
    /\ UNCHANGED nextPk

\* instance.save() on the kept instance, which is unsaved.
SaveNew ==
    /\ Called
    /\ inst # NoInstance
    /\ ~IsSaved(inst.node)
    /\ nextPk <= MaxPk
    /\ (~inst.pending \/ inst.new_parent = None) => nextTree <= MaxTree
    /\ \E out \in SaveNewInstance(store, inst, nextPk, nextTree) :
          /\ store' = out.store
          /\ inst' = IF out.err = "ok" THEN NoInstance ELSE inst
          /\ nextPk' = IF out.err = "ok" THEN nextPk + 1 ELSE nextPk
          /\ nextTree' = IF out.err = "ok" /\ (~inst.pending \/ inst.new_parent = None)
                         THEN nextTree + 1 ELSE nextTree
          /\ last' = Call("save-new", nextPk,
                          IF inst.pending THEN inst.new_parent.pk ELSE 0,
                          "last-child", out.err, out.rebalanced)

\* A tree query on the stored node n, or (n = 0) on the unsaved instance the
\* caller keeps, which is a fresh Model() when no instance is kept.
Query(query, n) ==
    /\ Called
    /\ \/ n \in Pks(store)
       \/ n = 0 /\ inst.node.pk = 0
    /\ last' = Call(query, n, 0, "",
                    QueryError(store, query, IF n = 0 THEN inst.node ELSE Load(store, n)),
                    FALSE)
    /\ UNCHANGED <<store, nextPk, nextTree, inst>>

\* Model.objects.get(pk=n).parent = node, for the unsaved instance node that
\* insert_at has set up.
SetUnsavedParent(n) ==
    /\ Called
    /\ n \in Pks(store)
    /\ inst # NoInstance
    /\ inst.node.pk = 0
    /\ LET r == ParentSetter(Instance(Load(store, n)), inst.node)
       IN  /\ inst' = IF r.err = "ok" THEN r.inst ELSE inst
           /\ last' = Call("set-unsaved-parent", n, 0, "", r.err, FALSE)
    /\ UNCHANGED <<store, nextPk, nextTree>>

\* Model().insert_at(node, position, save=True), for the unsaved instance node
\* that insert_at has set up.
InsertRelativeToUnsaved(position) ==
    /\ Called
    /\ nextPk <= MaxPk
    /\ inst # NoInstance
    /\ inst.node.pk = 0
    /\ \E out \in InsertNodeOf(store, None, nextPk, inst.node, position, nextTree) :
          /\ store' = out.store
          /\ nextPk' = IF out.err = "ok" THEN nextPk + 1 ELSE nextPk
          /\ last' = Call("insert-relative-to-unsaved", nextPk, 0, position,
                          out.err, out.rebalanced)
    /\ UNCHANGED <<nextTree, inst>>

\* Model.objects.get(pk=n).insert_at(target, position, save=True): the node
\* is already saved (t = 0: target is None).
InsertSaved(n, t, position) ==
    /\ Called
    /\ n \in Pks(store)
    /\ t \in Pks(store) \cup {0}
    /\ nextTree <= MaxTree
    /\ \E out \in InsertNodeOf(store, Load(store, n), n,
                                IF t = 0 THEN None ELSE Load(store, t), position, nextTree) :
          /\ store' = out.store
          /\ nextTree' = IF out.err = "ok" /\ t = 0 THEN nextTree + 1 ELSE nextTree
          /\ last' = Call("insert-saved", n, t, position, out.err, out.rebalanced)
    /\ UNCHANGED <<nextPk, inst>>

\* A table of one tree: root 1 (0, 1) and its child 2, inserted as first
\* child, as insert_node(1, None), insert_node(2, 1, 'first-child') leave it.
InitUnsaved ==
    /\ places = DECIMAL_PLACES
    /\ \E first \in InsertNode(<<>>, 1, None, "last-child", 1) :
          \E second \in InsertNode(first.store, 2, Load(first.store, 1), "first-child", 2) :
              store = second.store
    /\ nextPk = 3
    /\ nextTree = 2
    /\ last = Call("insert", 2, 1, "first-child", "ok", FALSE)
    /\ calls = MaxCalls - UnsavedCalls
    /\ inst = NoInstance
    /\ alloc = NoAllocation

\* The calls of Spec, and the calls that involve an unsaved instance or try
\* to insert a saved one.
NextUnsaved ==
    \/ Next
    \/ \E t \in 0..MaxPk, position \in Positions : InsertAt(t, position)
    \/ SaveNew
    \/ \E query \in TreeQueries, n \in 0..MaxPk : Query(query, n)
    \/ \E n \in 1..MaxPk : SetUnsavedParent(n)
    \/ \E position \in Positions : InsertRelativeToUnsaved(position)
    \/ \E n \in 1..MaxPk, t \in 0..MaxPk, position \in Positions : InsertSaved(n, t, position)

SpecUnsaved == InitUnsaved /\ [][NextUnsaved]_vars

\* A caller is about to call _calculate_sub_interval(outerleft, outerright,
\* count) with two row bounds outerleft < outerright the columns can hold and
\* a count of at least one, at one of the two precisions.
InitAllocate ==
    /\ places \in {DECIMAL_PLACES, WideDecimalPlaces}
    /\ store = <<>>
    /\ nextPk = 1
    /\ nextTree = 1
    /\ last = Call("init", 0, 0, "", "ok", FALSE)
    /\ calls = 0
    /\ inst = NoInstance
    /\ \E outerleft \in 0..MaxBound, outerright \in 0..MaxBound, count \in 1..MaxCount :
          /\ outerleft < outerright
          /\ outerright < ColumnLimit
          /\ alloc = [outerleft |-> outerleft, outerright |-> outerright, count |-> count,
                      returned |-> FALSE, result |-> Raise("")]

\* The call returns or raises.
Allocate ==
    /\ ~alloc.returned
    /\ alloc' = [alloc EXCEPT
                    !.returned = TRUE,
                    !.result = CalculateSubInterval(ToMem(alloc.outerleft),
                                                    ToMem(alloc.outerright), alloc.count)]
    /\ last' = Call("allocate", 0, 0, "", alloc'.result.err, FALSE)
    /\ UNCHANGED <<store, nextPk, nextTree, calls, inst, places>>

SpecAllocate == InitAllocate /\ [][Allocate]_vars

\* ------------------------------------------------------------- invariants

SameTree(p, q) == store[p].tree_id = store[q].tree_id

\* a.right < b.left or b.right < a.left: the two ranges share no point.
Disjoint(p, q) ==
    \/ store[p].right < store[q].left
    \/ store[q].right < store[p].left

\* p.left < q.left < q.right < p.right
StrictlyContains(p, q) ==
    /\ store[p].left < store[q].left
    /\ store[q].left < store[q].right
    /\ store[q].right < store[p].right

\* C1 (I2, I3): after any sequence of insert, move, delete and rebalance, any
\* two stored nodes of one tree have ranges that are disjoint or strictly
\* nested, with no partial overlap and no shared bound.
C1_NestingHolds ==
    \A p \in Pks(store) : \A q \in Pks(store) :
        (p # q /\ SameTree(p, q)) =>
            \/ Disjoint(p, q)
            \/ StrictlyContains(p, q)
            \/ StrictlyContains(q, p)

\* C2 (I4): every stored node's level is the number of stored nodes of its
\* tree whose range strictly contains the node's range.
C2_LevelIsAncestorCount ==
    \A p \in Pks(store) :
        store[p].level =
            Cardinality({q \in Pks(store) : q # p /\ SameTree(p, q) /\ StrictlyContains(q, p)})

\* C3 (I5): every tree_id on a stored node is on exactly one node of level 0.
C3_OneRootPerTree ==
    \A p \in Pks(store) : Cardinality(RootNode(store, store[p].tree_id)) = 1

\* C4 (I1): every stored node has left < right.
C4_LeftBelowRight ==
    \A p \in Pks(store) : store[p].left < store[p].right

\* ------------------------------------------------------------------- moves

\* The step is a call of move_node(n, t, position); t = 0 is target=None.
IsMove(n, t) == last'.op = "move" /\ last'.node = n /\ last'.target = t

Succeeded == last'.err = "ok"

\* The descendants of the stored node n, as get_descendants selects them.
DescendantsOf(s, n) == GetDescendants(s, Load(s, n), FALSE)

\* C5: a move whose target is the node itself or one of its descendants fails
\* with InvalidMove, for each of the four positions, and writes nothing.
C5_InvalidMoveRejected ==
    [][\A n \in Pks(store) : \A t \in Pks(store) :
          (IsMove(n, t) /\ (t = n \/ t \in DescendantsOf(store, n)))
              => (last'.err = "InvalidMove" /\ store' = store)]_vars

\* C6: when the save of an instance with an assigned parent fails with
\* InvalidMove, the assignment stays: instance.parent is still the attempted
\* parent, nothing was written, and a later save makes the same move.
C6_PendingParentKept ==
    [][(last'.op = "save" /\ last'.err = "InvalidMove") =>
          /\ inst'.pending
          /\ inst'.node = inst.node
          /\ inst'.new_parent = inst.new_parent
          /\ GetParent(store', inst') = {inst.new_parent.pk}
          /\ store' = store]_vars

\* A save through an instance with an assigned parent has just failed with
\* InvalidMove, and the instance still carries the assignment.
C6_Witness ==
    /\ last.op = "save"
    /\ last.err = "InvalidMove"
    /\ inst.pending
    /\ inst.node.pk = last.node
    /\ inst.new_parent.pk = last.target

\* C7: a move to target=None leaves the node at level 0, gives the node and
\* all its descendants one fresh tree_id that no other node carries, and keeps
\* each descendant's parent and its depth relative to the moved node.
C7_MoveToRootDetaches ==
    [][\A n \in Pks(store) :
          (IsMove(n, 0) /\ Succeeded) =>
              /\ store'[n].level = 0
              /\ store'[n].tree_id = nextTree
              /\ \A p \in Pks(store') :
                    (p # n /\ p \notin DescendantsOf(store, n))
                        => store'[p].tree_id # nextTree
              /\ \A d \in DescendantsOf(store, n) :
                    /\ store'[d].tree_id = nextTree
                    /\ store'[d].level - store'[n].level = store[d].level - store[n].level
                    /\ Parent(store', Load(store', d)) = Parent(store, Load(store, d))]_vars

\* C8: a move to a saved target adds one level offset (target.level + 1 -
\* node.level for child positions, target.level - node.level for sibling
\* positions) to the node and to each of its descendants, and gives them the
\* target's tree_id when the target is in another tree.
C8_UniformLevelOffset ==
    [][\A n \in Pks(store) : \A t \in Pks(store) :
          (IsMove(n, t) /\ Succeeded) =>
              LET offset == IF last'.position \in {"left", "right"}
                            THEN store[t].level - store[n].level
                            ELSE store[t].level + 1 - store[n].level
                  moved == {n} \cup DescendantsOf(store, n)
              IN  \A d \in moved :
                    /\ store'[d].level = store[d].level + offset
                    /\ store[t].tree_id # store[n].tree_id
                          => store'[d].tree_id = store[t].tree_id]_vars

Ancestor(s, q, p) == p \in DescendantsOf(s, q)

\* The bounds of the nodes in S, as <<pk, side>>.
Bounds(S) == S \X {"left", "right"}

BoundAt(s, b) == IF b[2] = "left" THEN s[b[1]].left ELSE s[b[1]].right

\* C10: a move keeps the moved subtree's structure: among the moved node and
\* its descendants the ancestor relation and the left-to-right order of the
\* bounds are the same before and after.
C10_SubtreeStructureKept ==
    [][\A n \in Pks(store) :
          (last'.op = "move" /\ last'.node = n /\ Succeeded) =>
              LET moved == {n} \cup DescendantsOf(store, n)
              IN  /\ \A p \in moved : \A q \in moved :
                        Ancestor(store', q, p) <=> Ancestor(store, q, p)
                  /\ \A b \in Bounds(moved) : \A c \in Bounds(moved) :
                        (BoundAt(store', b) < BoundAt(store', c))
                            <=> (BoundAt(store, b) < BoundAt(store, c))]_vars

\* ------------------------------------------------------- relations kept

\* The step is a successful move_node(n, t, 'last-child') where t is the parent
\* the stored node n has.
IsMoveToLastChildOfParent(n, t) ==
    /\ IsMove(n, t)
    /\ last'.position = "last-child"
    /\ Succeeded
    /\ Parent(store, Load(store, n)) = {t}

\* C11: moving a non-root node to last-child of its current parent keeps the
\* ancestor/descendant relation among all stored nodes: for every pair, one is
\* an ancestor of the other after the move exactly when it was before.
C11_LastChildOfParentKeepsRelation ==
    [][\A n \in Pks(store) : \A t \in Pks(store) :
          IsMoveToLastChildOfParent(n, t) =>
              \A p \in Pks(store) : \A q \in Pks(store) :
                  Ancestor(store', q, p) <=> Ancestor(store, q, p)]_vars

\* The stored nodes of the tree tree_id.
TreeNodes(s, tree_id) == {p \in Pks(s) : s[p].tree_id = tree_id}

\* q's range strictly contains p's range in the table s.
Contains(s, q, p) ==
    /\ s[q].left < s[p].left
    /\ s[p].left < s[p].right
    /\ s[p].right < s[q].right

\* I1-I5 hold of the tree tree_id in the table s.
WellFormedTree(s, tree_id) ==
    LET T == TreeNodes(s, tree_id)
    IN  /\ \A p \in T : s[p].left < s[p].right
        /\ \A p \in T : \A q \in T :
              p # q => \/ s[p].right < s[q].left
                       \/ s[q].right < s[p].left
                       \/ Contains(s, p, q)
                       \/ Contains(s, q, p)
        /\ \A p \in T :
              s[p].level = Cardinality({q \in T : q # p /\ Contains(s, q, p)})
        /\ Cardinality({p \in T : s[p].level = 0}) = 1

\* C12: rebalance_tree on a tree that satisfies I1-I5 keeps the relation: for
\* every pair of nodes of the tree one is an ancestor of the other, and one the
\* parent of the other, after the rebalance exactly when it was before.
C12_RebalanceKeepsRelation ==
    [][(last'.op = "rebalance" /\ last'.err = "ok"
            /\ WellFormedTree(store, last'.target)) =>
          \A p \in TreeNodes(store, last'.target) :
              /\ p \in Pks(store')
              /\ Parent(store', Load(store', p)) = Parent(store, Load(store, p))
              /\ \A q \in TreeNodes(store, last'.target) :
                    Ancestor(store', q, p) <=> Ancestor(store, q, p)]_vars

\* ------------------------------------------------------- delete and counts

\* C13: delete removes the node and its descendants and nothing else; every
\* other node stays stored with the left, right, level and tree_id it had.
C13_DeleteFrame ==
    [][\A n \in Pks(store) :
          (last'.op = "delete" /\ last'.node = n) =>
              /\ Pks(store') = Pks(store) \ ({n} \cup DescendantsOf(store, n))
              /\ \A p \in Pks(store') : store'[p] = store[p]]_vars

\* The stored nodes of n's tree whose range lies strictly inside n's range.
NodesBelow(s, n) == {p \in TreeNodes(s, s[n].tree_id) : p # n /\ Contains(s, n, p)}

\* C14: get_descendant_count(n) is the number of stored nodes below n, and a
\* move whose moved node and target are not n and not in n's subtree leaves it
\* as it was.
C14_DescendantCount ==
    [][/\ \A n \in Pks(store') :
             GetDescendantCount(store', Load(store', n)) = Cardinality(NodesBelow(store', n))
       /\ \A n \in Pks(store) : \A m \in Pks(store) : \A t \in Pks(store) \cup {0} :
             (/\ IsMove(m, t) /\ Succeeded
              /\ n \notin {m, t}
              /\ m \notin DescendantsOf(store, n)
              /\ t \notin DescendantsOf(store, n))
                 => /\ n \in Pks(store')
                    /\ GetDescendantCount(store', Load(store', n))
                          = GetDescendantCount(store, Load(store, n))]_vars

\* ------------------------------------------------------------ stale saves

\* C15: saving an instance that was loaded before the tree was restructured,
\* and on which no parent was assigned since, writes none of left, right,
\* level and tree_id: the table after the save is the table before it.
C15_StaleSaveWritesNoTreeField ==
    [][(last'.op = "save" /\ ~inst.pending) => store' = store]_vars

\* A save has just succeeded on a kept instance with no assigned parent whose
\* left, right, level or tree_id are no longer those of its row.
C15_Witness ==
    /\ last.op = "save"
    /\ last.err = "ok"
    /\ ~inst.pending
    /\ inst.node.pk \in Pks(store)
    /\ Load(store, inst.node.pk) # inst.node

\* ------------------------------------------------------ rebalance and retry

\* The count the first allocation of the call op on node n is made with.
FirstCount(s, op, n) ==
    IF op = "insert" THEN 1 ELSE GetDescendantCount(s, Load(s, n)) + 1

\* One rebalance of the target's tree followed by one allocation with count 1
\* relative to the target re-read from the rebalanced table: the possible
\* [store, interval].
RebalancedOnceAndRetried(s, t, position) ==
    UNION {{[store |-> reb.store, interval |-> retry]
            : retry \in GetIntervalForInsertionRelativeTo(
                           reb.store, Load(reb.store, t), position, 1)}
           : reb \in {r \in RebalanceTree(s, s[t].tree_id) : r.err = "ok"}}

\* The rows node n's call may rewrite besides n's own: the new row of an
\* insert has none, a move rewrites what the instance's get_descendants selects.
Rescaled(s, op, n, after) ==
    IF op = "insert" THEN {} ELSE GetDescendants(after, Load(s, n), FALSE)

\* C16: an insert or move rebalances exactly when its first allocation raises
\* IntervalTooSmall; it then rebalances the target's tree once, re-reads the
\* target and retries once with count 1; IntervalTooSmall reaches the caller
\* only when that retry raises it.
C16_RebalanceOnceRetryOnce ==
    [][\A t \in Pks(store) :
          (last'.op \in {"insert", "move"} /\ last'.target = t) =>
              LET n == last'.node
                  first == GetIntervalForInsertionRelativeTo(
                               store, Load(store, t), last'.position,
                               FirstCount(store, last'.op, n))
                  once == RebalancedOnceAndRetried(store, t, last'.position)
              IN  /\ last'.rebalanced =>
                        \E i \in first : i.err = "IntervalTooSmall"
                  /\ (~last'.rebalanced /\ last'.err # "InvalidMove") =>
                        \E i \in first : i.err = last'.err
                  /\ (last'.rebalanced /\ last'.err = "ok") =>
                        \E o \in once :
                            /\ o.interval.err = "ok"
                            /\ store'[n].left = Quantize(o.interval.left)
                            /\ store'[n].right = Quantize(o.interval.right)
                            /\ \A p \in Pks(store) \ ({n} \cup Rescaled(store, last'.op, n, o.store)) :
                                  store'[p] = o.store[p]
                  /\ last'.err = "IntervalTooSmall" =>
                        /\ last'.rebalanced
                        /\ \E o \in once : o.interval.err = "IntervalTooSmall"]_vars

\* An insert or move has just succeeded after a rebalance.
C16_Witness ==
    /\ last.op \in {"insert", "move"}
    /\ last.rebalanced
    /\ last.err = "ok"

\* ------------------------------------------------------------------ errors

\* C17: an insert_node, move_node or save call that ends in an error leaves
\* the table as it was before the call, also when the rebalance had rewritten
\* bounds before the retry raised.
C17_ErrorsWriteNothing ==
    [][(last'.op \in {"insert", "move", "save"} /\ last'.err # "ok")
          => store' = store]_vars

\* An insert, move or save has just raised IntervalTooSmall from the retry that
\* follows the rebalance, on a table of at least three nodes.
C17_Witness ==
    /\ last.op \in {"insert", "move", "save"}
    /\ last.err = "IntervalTooSmall"
    /\ last.rebalanced
    /\ Cardinality(Pks(store)) >= 3

\* C18: an insert or move at position left or right of a target of level 0
\* raises (ValueError, or InvalidMove when the target is the node) and writes
\* nothing; the node's descendants are not rescaled.
C18_NoSiblingOfRoot ==
    [][\A t \in Pks(store) :
          (/\ last'.op \in {"insert", "move"}
           /\ last'.target = t
           /\ last'.position \in {"left", "right"}
           /\ store[t].level = 0)
              => /\ last'.err \in {"ValueError", "InvalidMove"}
                 /\ store' = store]_vars

\* A move of a node with a descendant to the left or right of a root of
\* another tree has just been refused.
C18_Witness ==
    /\ last.op = "move"
    /\ last.position \in {"left", "right"}
    /\ last.err = "ValueError"
    /\ last.target \in Pks(store)
    /\ last.node \in Pks(store)
    /\ store[last.target].level = 0
    /\ store[last.target].tree_id # store[last.node].tree_id
    /\ DescendantsOf(store, last.node) # {}

\* --------------------------------------------------------------- placement

\* In the table s the stored node n is where position says relative to the
\* stored node t: the first or the last of t's children in left order, or the
\* sibling get_previous_sibling / get_next_sibling of t returns, under t's parent.
PlacedAt(s, n, t, position) ==
    CASE position = "first-child" -> FirstOf(s, GetChildren(s, Load(s, t))) = {n}
      [] position = "last-child" -> LastOf(s, GetChildren(s, Load(s, t))) = {n}
      [] position = "left" ->
            /\ Parent(s, Load(s, t)) # {}
            /\ Parent(s, Load(s, n)) = Parent(s, Load(s, t))
            /\ \A par \in Parent(s, Load(s, t)) :
                  GetPreviousSibling(s, Load(s, t), par) = {n}
      [] position = "right" ->
            /\ Parent(s, Load(s, t)) # {}
            /\ Parent(s, Load(s, n)) = Parent(s, Load(s, t))
            /\ \A par \in Parent(s, Load(s, t)) :
                  GetNextSibling(s, Load(s, t), par) = {n}

\* C19: after a successful insert or move of a node relative to a saved
\* target the node is placed as position says (first child, last child,
\* immediate previous sibling, immediate next sibling of the target), its
\* level is target.level + 1 for child positions and target.level for sibling
\* positions, and its tree_id is the target's.
C19_PlacedAsAsked ==
    [][\A t \in Pks(store) :
          (last'.op \in {"insert", "move"} /\ last'.target = t /\ last'.err = "ok") =>
              LET n == last'.node
              IN  /\ PlacedAt(store', n, t, last'.position)
                  /\ store'[n].level = IF last'.position \in {"left", "right"}
                                       THEN store'[t].level ELSE store'[t].level + 1
                  /\ store'[n].tree_id = store'[t].tree_id]_vars

\* C20: saving a new node with no parent stores a tree of its own (level 0,
\* range [0, 1], a tree_id no other stored node has); saving a new node with
\* parent p stores it as the last child of p, after the children p had, and
\* with p as its parent.
C20_NewNodeSaved ==
    [][(last'.op = "insert" /\ last'.position = "last-child" /\ last'.err = "ok") =>
          LET n == last'.node
              p == last'.target
          IN  IF p = 0
              THEN /\ store'[n].level = 0
                   /\ store'[n].left = 0
                   /\ ToMem(store'[n].right) = MemOne
                   /\ \A q \in Pks(store') \ {n} : store'[q].tree_id # store'[n].tree_id
              ELSE /\ LastOf(store', GetChildren(store', Load(store', p))) = {n}
                   /\ \A c \in GetChildren(store, Load(store, p)) :
                         /\ c \in GetChildren(store', Load(store', p))
                         /\ store'[c].left < store'[n].left
                   /\ Parent(store', Load(store', n)) = {p}]_vars

\* -------------------------------------------------------------- allocation

\* C22: for row bounds outer_left < outer_right and count >= 1 the sub-range
\* computation raises IntervalTooSmall or returns left < right; it raises
\* exactly when outer_left + increment and outer_right - increment are equal
\* after the context's rounding, and it never returns left >= right.
C22_AllocationNeverInverted ==
    alloc.returned =>
        LET outerleft == ToMem(alloc.outerleft)
            outerright == ToMem(alloc.outerright)
            increment == DecDiv(DecSub(outerright, outerleft), TwoCountPlusOne(alloc.count))
        IN  /\ alloc.result.err \in {"ok", "IntervalTooSmall"}
            /\ alloc.result.err = "ok" => alloc.result.left < alloc.result.right
            /\ alloc.result.err = "IntervalTooSmall"
                  <=> DecAdd(outerleft, increment) = DecSub(outerright, increment)

\* A sub-range computation on a gap of more than one unit of the last place
\* has just raised IntervalTooSmall.
C22_Witness ==
    /\ alloc.returned
    /\ alloc.result.err = "IntervalTooSmall"
    /\ alloc.outerright - alloc.outerleft > 1

\* --------------------------------------------------------------- rebalancer

\* The tables the traversal of the tree tree_id leaves when it starts at 0 and
\* steps by increment.
TraversedWith(s, tree_id, increment) ==
    UNION {{r.store : r \in RebalanceHelper(s, Load(s, root), 0, increment)}
           : root \in RootNode(s, tree_id)}

\* The step is a successful rebalance_tree of a tree that satisfies I1-I5.
IsRebalanceOfWellFormedTree ==
    /\ last'.op = "rebalance"
    /\ last'.err = "ok"
    /\ WellFormedTree(store, last'.target)

\* C23, as stated: rebalance on a tree of node_count nodes steps by
\* increment = 1 / (2 * node_count + 1).
C23_IncrementTwoCountPlusOne ==
    [][IsRebalanceOfWellFormedTree =>
          LET node_count == Cardinality(TreeNodes(store, last'.target))
          IN  store' \in TraversedWith(store, last'.target,
                                       DecDiv(MemOne, TwoCountPlusOne(node_count)))]_vars

\* C23, amended: rebalance on a tree of node_count nodes steps by the
\* increment of the root-level allocation with count = node_count, which is
\* 1 / (2 * node_count - 1) at the context's precision.
C23_IncrementTwoCountMinusOne ==
    [][IsRebalanceOfWellFormedTree =>
          LET node_count == Cardinality(TreeNodes(store, last'.target))
          IN  store' \in TraversedWith(store, last'.target,
                                       DecDiv(MemOne, TwoCountMinusOne(node_count)))]_vars

\* A tree of at least three nodes has just been rebalanced.
C23_Witness ==
    /\ last.op = "rebalance"
    /\ last.err = "ok"
    /\ Cardinality(TreeNodes(store, last.target)) >= 3

\* The number of bounds of the nodes in S that lie below the bound b in s.
Rank(s, S, b) == Cardinality({c \in Bounds(S) : BoundAt(s, c) < BoundAt(s, b)})

\* C24: after rebalance_tree on a tree of n nodes, whatever the bounds were,
\* the 2n bounds of the tree are pairwise distinct and one increment apart when
\* listed in increasing order, and they are laid out as a depth-first walk
\* does: a node's children lie strictly inside it, in their previous left
\* order, so the tree is strictly nested.
C24_EvenSpacing ==
    [][(last'.op = "rebalance" /\ last'.err = "ok") =>
          LET T == TreeNodes(store', last'.target)
              increment == DecDiv(MemOne, TwoCountMinusOne(Cardinality(T)))
          IN  /\ \A b \in Bounds(T) : \A c \in Bounds(T) :
                    b # c => BoundAt(store', b) # BoundAt(store', c)
              /\ \A b \in Bounds(T) :
                    ToMem(BoundAt(store', b)) = Rank(store', T, b) * increment
              /\ \A p \in T : \A q \in GetChildren(store, Load(store, p)) :
                    /\ Contains(store', p, q)
                    /\ \A r \in GetChildren(store, Load(store, p)) :
                          store[q].left < store[r].left => store'[q].right < store'[r].left
              /\ WellFormedTree(store', last'.target)]_vars

\* The traversals rebalance_tree may make of the tree tree_id of the table s.
Traversals(s, tree_id) ==
    UNION {LET root == Load(s, p)
               count == Cardinality(GetDescendants(s, root, TRUE))
           IN  UNION {RebalanceHelper(s, root, interval.left, interval.increment)
                      : interval \in GetIntervalForInsertionRelativeTo(
                                         s, None, "last-child", count)}
           : p \in RootNode(s, tree_id)}

\* C25: rebalance_tree, here on a tree that satisfies I1-I5, visits and writes
\* every node of the tree exactly once, and the children its loop goes through
\* for a node are that node's children in the tree as it was before the
\* rebalance started.
C25_EachNodeVisitedOnce ==
    [][IsRebalanceOfWellFormedTree =>
          \A r \in Traversals(store, last'.target) :
              r.store = store' =>
                  /\ \A p \in TreeNodes(store, last'.target) :
                        Cardinality({i \in DOMAIN r.visits : r.visits[i].node = p}) = 1
                  /\ \A i \in DOMAIN r.visits :
                        {r.visits[i].children[j] : j \in DOMAIN r.visits[i].children}
                            = GetChildren(store, Load(store, r.visits[i].node))]_vars

\* C26: rebalance_tree(tree_id) changes left and right of nodes of that tree
\* only: it keeps every node's level and tree_id, keeps all four fields of the
\* nodes of the other trees, and neither creates nor deletes a node.
C26_RebalanceFrame ==
    [][last'.op = "rebalance" =>
          /\ Pks(store') = Pks(store)
          /\ \A p \in Pks(store) :
                /\ store'[p].level = store[p].level
                /\ store'[p].tree_id = store[p].tree_id
                /\ store[p].tree_id # last'.target => store'[p] = store[p]]_vars

\* A tree of at least two nodes has just been rebalanced while another tree
\* of at least two nodes is stored.
C26_Witness ==
    /\ last.op = "rebalance"
    /\ last.err = "ok"
    /\ Cardinality(TreeNodes(store, last.target)) >= 2
    /\ \E p \in Pks(store) :
          /\ store[p].tree_id # last.target
          /\ Cardinality(TreeNodes(store, store[p].tree_id)) >= 2

\* ------------------------------------------------------------ inside the gap

\* C27: when the allocation of an insert or move succeeds (here without a
\* rebalance), the node's new range lies strictly inside the gap it was
\* allocated from: outer_left < left and right < outer_right, so it shares no
\* bound with the parent or a neighbouring node.
C27_StrictlyInsideGap ==
    [][\A t \in Pks(store) :
          (/\ last'.op \in {"insert", "move"}
           /\ last'.target = t
           /\ last'.err = "ok"
           /\ ~last'.rebalanced)
              => \E outer \in OuterRanges(store, Load(store, t), last'.position) :
                    /\ outer[1] < store'[last'.node].left
                    /\ store'[last'.node].right < outer[2]]_vars

\* ------------------------------------------------------ moves after rebalance

\* The tables a move of the stored node n to position of the stored node t
\* leaves when the first allocation is exhausted and the transform and the
\* selection of the descendants are made from n's row as the rebalance left it.
MovedFromRebalancedRow(s, n, t, position) ==
    {LET node == Load(o.store, n)
         target == Load(o.store, t)
         level_offset == LevelOffset(node, target, position)
         new_tree_id == NewTreeId(node, target, 0)
         u == UpdateDescendants(o.store, node, o.interval, level_offset, new_tree_id)
     IN  (n :> Row(o.interval.left, o.interval.right, node.level + level_offset,
                   IF new_tree_id # 0 THEN new_tree_id ELSE node.tree_id)) @@ u.store
     : o \in {x \in RebalancedOnceAndRetried(s, t, position) : x.interval.err = "ok"}}

\* C28: a move whose first allocation was exhausted, of a node that lies in
\* the tree that was just rebalanced, computes its transform and selects the
\* descendants to rescale from the node's bounds as the rebalance left them in
\* the store.
C28_MoveReadsRebalancedBounds ==
    [][\A n \in Pks(store) : \A t \in Pks(store) :
          (/\ IsMove(n, t) /\ Succeeded
           /\ last'.rebalanced
           /\ store[n].tree_id = store[t].tree_id)
              => store' \in MovedFromRebalancedRow(store, n, t, last'.position)]_vars

\* ------------------------------------------------------------ the unit range

\* C30: after any sequence of insert, move, delete and rebalance, every stored
\* node of level 0 has the range [0, 1] exactly, and the bounds of every other
\* node lie strictly between 0 and 1.
C30_RootsSpanUnitRange ==
    \A p \in Pks(store) :
        IF store[p].level = 0
        THEN store[p].left = 0 /\ ToMem(store[p].right) = MemOne
        ELSE /\ 0 < store[p].left
             /\ ToMem(store[p].left) < MemOne
             /\ 0 < store[p].right
             /\ ToMem(store[p].right) < MemOne

\* ------------------------------------------------------------ unsaved nodes

C29_SaveKeepsInsertAtPlace ==
    [][(/\ last'.op = "save-new" /\ last'.err = "ok"
        /\ inst.changed /\ ~inst.pending /\ inst.node.level > 0) =>
          /\ last'.node \in Pks(store')
          /\ store'[last'.node] = [left |-> inst.node.left, right |-> inst.node.right,
                                   level |-> inst.node.level,
                                   tree_id |-> inst.node.tree_id]]_vars

====
